---------------------------- MODULE Spec2Model ----------------------------
(***************************************************************************)
(* State-machine model of src/bot.py (GOHAR-DL): the Session Store STATE,  *)
(* the FIFO job queue with its lock, the lazily started dispatch loop      *)
(* (_ensure_queue_worker / _queue_loop), the admission semaphore and the   *)
(* download job run_download with send_with_limit and safe_remove.         *)
(*                                                                         *)
(* Threads: telebot runs every handler (on_url, dl_cb, cmd_cleanup) on a   *)
(* pool thread, so handlers interleave with each other and with the loop   *)
(* threads.  The threads of one kind run the same code and carry no name,  *)
(* so they are kept as a bag of thread states.  One step of the model is   *)
(* one access to shared state, or the thread-local code between two such   *)
(* accesses.                                                               *)
(* Calls to the chat transport (bot.send_message, bot.edit_message_text,   *)
(* bot.answer_callback_query, bot.send_audio / send_video) and to yt-dlp   *)
(* may return or raise; both outcomes are enumerated.                      *)
(***************************************************************************)
EXTENDS Integers, Sequences, FiniteSets, Bags, TLC

\* ------------------------------------------------------------- constants
\* src/bot.py:51
MAX_ACTIVE_JOBS == 2
\* src/bot.py:45
MAX_FILE_MB == 1800
\* src/bot.py:269  (1024 * 1024)
MiB == 1048576
\* src/bot.py:43  (3 * 60 * 60)
MAX_DURATION_SEC == 10800

\* src/bot.py:48
PROGRESS_EDIT_SECONDS == 2

\* --------------------------------------------------------------- bounds
\* selection callbacks (button presses) delivered in one run
MaxCallbacks == 3
\* inbound URL messages delivered in one run
MaxMsgs == 1

\* selection callbacks delivered in one run in which the clock advances
ClockCallbacks == 2
\* seconds by which the clock advances in one run
MaxClock == 1

\* progress samples fed to one ProgressTracker
MaxSamples == 3

\* candidates in the format list of one MediaInfo
MaxFormats == 3

\* a Session key stands for the pair (chat_id, message_id) of an inbound message
Keys == 1..MaxMsgs

\* sizes in bytes of the artifact of a medium: at the ceiling and one byte
\* above it
Sizes == {MAX_FILE_MB * MiB, MAX_FILE_MB * MiB + 1}

\* durations (seconds) reported by the Extractor: at the limit and one second
\* above it
Durations == {MAX_DURATION_SEC, MAX_DURATION_SEC + 1}

\* the quality bucket of the video buttons and the ladders (q_to_fmt) a scan builds
Bucket == 720
NoLadder == << >>
Ladders == {NoLadder, (Bucket :> "22")}

None == "None"

VARIABLES
    State,                  \* STATE: dict (chat_id, msg_id) -> session
    menus,                  \* keys whose selection menu has been sent to the chat
    media,                  \* per URL message: bytes of the file its medium downloads to
    upc,                    \* on_url: position of the handler of each URL message
    upend,                  \* on_url: the ladder built by the scan, until stored
    scan,                   \* on_url: what the scan of each URL message saw and sent
    now,                    \* int(time.time()): the clock, in whole seconds
    cb_left,                \* selection callbacks not delivered yet
    handlers,               \* bag of the threads inside dl_cb / enqueue
    queue,                  \* _queue
    queue_lock,             \* _queue_lock: TRUE while a thread holds it
    queue_worker_started,   \* _queue_worker_started
    active_sem,             \* _active_sem: its counter
    loops,                  \* bag of the threads started with target=_queue_loop
    files,                  \* output paths of the artifacts present in DOWNLOAD_DIR
    appended,               \* number of jobs appended to _queue so far
    started,                \* ids of the jobs started, in start order
    tracker,                \* a ProgressTracker: last_edit, last_text
    sample,                 \* the progress sample d of the last call of its hook
    nfed,                   \* number of calls of its hook so far
    emitted,                \* the edits of the status message that returned: time, text
    info,                   \* build_video_choices: its argument (formats, duration)
    tier,                   \* build_video_choices: the loop it is in (1, 2, 3); 0: not called
    idx,                    \* build_video_choices: candidates the loop has gone through
    choices,                \* build_video_choices: q_to_fmt and q_sizes
    returned                \* build_video_choices: it has returned

vars == <<State, menus, media, upc, upend, scan, now, cb_left, handlers, queue,
          queue_lock, queue_worker_started, active_sem, loops, files, appended,
          started, tracker, sample, nfed, emitted, info, tier, idx, choices,
          returned>>

\* the ProgressTracker under study
hookVars == <<tracker, sample, nfed, emitted>>
\* the call of build_video_choices under study
buildVars == <<info, tier, idx, choices, returned>>
\* what no handler and no job writes
otherVars == <<media, now, hookVars, buildVars>>
urlVars == <<State, menus, otherVars, upc, upend, scan>>
queueVars == <<queue, queue_lock, queue_worker_started, appended>>

\* a thread of bag B leaves state old for state new
Move(B, old, new) == (B (-) SetToBag({old})) (+) SetToBag({new})

\* number of threads of bag B whose state is in set S
CountIn(B, S) == BagCardinality([e \in BagToSet(B) \cap S |-> B[e]])

NoJob == [id |-> 0, key |-> 0, mode |-> None, fmt_id |-> None]

\* a loop thread that runs no job: the locals of run_download are unset
Idle(pc) == [pc |-> pc, job |-> NoJob, status |-> None, ts |-> 0, size |-> 0,
             sent |-> 0, too_big |-> FALSE, raised |-> FALSE]

\* positions of a loop thread between _active_sem.acquire() and release()
InTry == {"begin", "send", "finally"}

\* a URL message whose scan has not run: nothing resolved, nothing replied
NoScan == [resolved |-> FALSE, duration |-> 0, built |-> FALSE, ladder |-> NoLadder,
           replies |-> << >>]

\* the text of a status line: the filled segments of the bar, the percentage
\* in tenths, the speed in hundredths of a MB/s and the ETA in seconds; -1
\* stands for the "?" of an unknown speed or ETA.  EmptyText is the "" of
\* line 228, the text of no render.
EmptyText == [bar |-> -1, pct |-> -1, spd |-> -1, eta |-> -1]

\* ProgressTracker.__init__, lines 224-229
NewTracker == [last_edit |-> 0, last_text |-> EmptyText]

\* no progress sample yet
NoSample == [status |-> None, total_bytes |-> 0, total_bytes_estimate |-> 0,
             downloaded_bytes |-> 0, speed |-> 0, eta |-> -1]

\* no ProgressTracker is under study
NoHook ==
    /\ tracker = NewTracker
    /\ sample = NoSample
    /\ nfed = 0
    /\ emitted = << >>

\* build_video_choices, lines 150-151: q_to_fmt = {}, q_sizes = {}
NoChoices == [q_to_fmt |-> << >>, q_sizes |-> << >>]

\* build_video_choices is not called
NoBuild ==
    /\ info = [formats |-> << >>, duration |-> 0]
    /\ tier = 0
    /\ idx = 0
    /\ choices = NoChoices
    /\ returned = FALSE

\* the state after the module body has run (lines 36-63), with n selection
\* callbacks still to come
Start(n) ==
    /\ State = << >>
    /\ menus = {}
    /\ media \in [Keys -> Sizes]
    /\ upc = [m \in Keys |-> "new"]
    /\ upend = [m \in Keys |-> NoLadder]
    /\ scan = [m \in Keys |-> NoScan]
    /\ cb_left = n
    /\ handlers = EmptyBag
    /\ queue = << >>
    /\ queue_lock = FALSE
    /\ queue_worker_started = FALSE
    /\ active_sem = MAX_ACTIVE_JOBS
    /\ loops = EmptyBag
    /\ files = {}
    /\ appended = 0
    /\ started = << >>

Init == Start(MaxCallbacks) /\ now = 0 /\ NoHook /\ NoBuild

\* ------------------------------------------------------------ on_url
\* on_url, lines 520-521: except Exception: reply SCAN FAILED.  err_ok: whether
\* that reply returns; the handler ends either way.
ScanFailed(r, err_ok) ==
    [r EXCEPT !.pc = "done",
              !.replies = IF err_ok THEN <<"SCANNING", "SCAN_FAILED">>
                          ELSE <<"SCANNING">>]

\* ScanResult with a raise of extract_info passed over instead of caught:
\* the scan goes on to the menu with nothing resolved
ScanResult_IgnoresFailure(reply_ok, extract_ok, duration, ladder, msg_ok, err_ok) ==
    IF ~reply_ok \/ ~msg_ok
    THEN [pc |-> "done", resolved |-> FALSE, duration |-> 0, built |-> FALSE,
          ladder |-> NoLadder, replies |-> << >>]
    ELSE [pc |-> "store", resolved |-> extract_ok, duration |-> 0, built |-> FALSE,
          ladder |-> NoLadder, replies |-> <<"SCANNING", "MENU">>]

\* ScanResult without the duration gate of lines 470-472
ScanResult_NoGate(reply_ok, extract_ok, duration, ladder, msg_ok, err_ok) ==
    IF ~reply_ok \/ ~extract_ok \/ ~msg_ok
    THEN [pc |-> "done", resolved |-> FALSE, duration |-> 0, built |-> FALSE,
          ladder |-> NoLadder, replies |-> << >>]
    ELSE [pc |-> "store", resolved |-> TRUE, duration |-> duration, built |-> TRUE,
          ladder |-> ladder, replies |-> <<"SCANNING", "MENU">>]

\* on_url, lines 460-509: reply SCANNING, extract_info, the duration gate,
\* build_video_choices (its q_to_fmt is ladder), the menu send.  reply_ok,
\* extract_ok: whether the first reply and extract_info return (TRUE) or
\* raise; msg_ok: whether the one transport call of the path (the TOO LONG
\* reply or the menu send) returns.  A raise of the first reply (line 461,
\* outside the try block) leaves the handler; every later raise is caught at
\* line 520.  The result: the handler's next position, what was resolved,
\* whether build_video_choices ran and what it built, and the texts that
\* reached the chat.
ScanResult(reply_ok, extract_ok, duration, ladder, msg_ok, err_ok) ==
    LET unresolved == [pc |-> "done", resolved |-> FALSE, duration |-> 0,
                       built |-> FALSE, ladder |-> NoLadder, replies |-> << >>]
        gated == [unresolved EXCEPT !.resolved = TRUE, !.duration = duration]
        scanned == [gated EXCEPT !.built = TRUE, !.ladder = ladder]
    IN  IF ~reply_ok THEN unresolved
        ELSE IF ~extract_ok THEN ScanFailed(unresolved, err_ok)
        ELSE IF duration # 0 /\ duration > MAX_DURATION_SEC
        THEN IF msg_ok
             THEN [gated EXCEPT !.replies = <<"SCANNING", "TOO_LONG">>]
             ELSE ScanFailed(gated, err_ok)
        ELSE IF msg_ok
             THEN [scanned EXCEPT !.pc = "store", !.replies = <<"SCANNING", "MENU">>]
             ELSE ScanFailed(scanned, err_ok)

\* on_url up to the menu send (line 509) or to its return
OnUrlScan(m) ==
    /\ upc[m] = "new"
    /\ m > 1 => upc[m - 1] # "new"
    /\ \E reply_ok \in BOOLEAN, extract_ok \in BOOLEAN, duration \in Durations,
          ladder \in Ladders, msg_ok \in BOOLEAN, err_ok \in BOOLEAN :
          LET r == ScanResult(reply_ok, extract_ok, duration, ladder, msg_ok, err_ok)
          IN  /\ upc' = [upc EXCEPT ![m] = r.pc]
              /\ scan' = [scan EXCEPT ![m] = [resolved |-> r.resolved,
                              duration |-> r.duration, built |-> r.built,
                              ladder |-> r.ladder, replies |-> r.replies]]
              /\ menus' = IF r.pc = "store" THEN menus \cup {m} ELSE menus
              /\ upend' = [upend EXCEPT ![m] = IF r.pc = "store" THEN r.ladder
                                                ELSE NoLadder]
    /\ UNCHANGED <<State, otherVars, cb_left, handlers, queueVars, active_sem,
                   loops, files, started>>

\* on_url, lines 511-518: STATE[(chat_id, message_id)] = {...}
OnUrlStore(m) ==
    /\ upc[m] = "store"
    /\ State' = [k \in DOMAIN State \cup {m} |->
                    IF k = m
                    THEN [duration |-> scan[m].duration, q_to_fmt |-> upend[m]]
                    ELSE State[k]]
    /\ upc' = [upc EXCEPT ![m] = "done"]
    /\ upend' = [upend EXCEPT ![m] = NoLadder]
    /\ UNCHANGED <<menus, otherVars, scan, cb_left, handlers, queueVars,
                   active_sem, loops, files, started>>

\* ------------------------------------------------------------- dl_cb
\* dict.get on the ladder of a session
LadderGet(ladder, q) == IF q \in DOMAIN ladder THEN ladder[q] ELSE None

\* dl_cb without the lookup of lines 535-538: every well-formed callback is
\* answered QUEUED and enqueued
DlCbResult_NoLookup(wellformed, kind, key, ans_ok, ans2_ok) ==
    IF ~wellformed \/ ~ans_ok
    THEN [pc |-> "return", job |-> NoJob, answers |-> <<"ERROR">>]
    ELSE [pc |-> "ensure",
          job |-> [id |-> 0, key |-> key, mode |-> "audio", fmt_id |-> None],
          answers |-> <<"QUEUED">>]

\* dl_cb, lines 528-558, up to the call of enqueue: the handler's next
\* position, the texts it passes to answer_callback_query and the job it
\* hands to enqueue.  wellformed: call.data parses (lines 529-533); ans_ok /
\* ans2_ok: whether the first / second answer_callback_query call returns
\* (TRUE) or raises (FALSE).
DlCbResult(wellformed, kind, key, ans_ok, ans2_ok) ==
    LET fmt_id == IF key \in DOMAIN State
                  THEN LadderGet(State[key].q_to_fmt, Bucket) ELSE None
        \* lines 554-558: the fault is swallowed after one more answer
        caught(texts) == [pc |-> "return", job |-> NoJob,
                          answers |-> Append(texts, "ERROR")]
    IN  IF ~wellformed THEN caught(<< >>)
        ELSE IF key \notin DOMAIN State
        THEN IF ans_ok
             THEN [pc |-> "return", job |-> NoJob, answers |-> <<"EXPIRED">>]
             ELSE caught(<<"EXPIRED">>)
        ELSE IF ~ans_ok THEN caught(<<"QUEUED">>)
        ELSE IF kind = "a"
        THEN [pc |-> "ensure",
              job |-> [id |-> 0, key |-> key, mode |-> "audio", fmt_id |-> None],
              answers |-> <<"QUEUED">>]
        ELSE IF fmt_id = None
        THEN IF ans2_ok
             THEN [pc |-> "return", job |-> NoJob,
                   answers |-> <<"QUEUED", "NO_QUALITY">>]
             ELSE caught(<<"QUEUED", "NO_QUALITY">>)
        ELSE [pc |-> "ensure",
              job |-> [id |-> 0, key |-> key, mode |-> "video", fmt_id |-> fmt_id],
              answers |-> <<"QUEUED">>]

\* a selection callback is delivered and dl_cb runs up to the call of enqueue
\* or to its return
DlCb ==
    /\ cb_left > 0
    /\ cb_left' = cb_left - 1
    /\ \E wellformed \in BOOLEAN, kind \in {"a", "v"}, key \in Keys,
          ans_ok \in BOOLEAN, ans2_ok \in BOOLEAN :
          handlers' = handlers (+)
              SetToBag({DlCbResult(wellformed, kind, key, ans_ok, ans2_ok)})
    /\ UNCHANGED <<urlVars, queueVars, active_sem, loops, files, started>>

\* ----------------------------------------- enqueue / _ensure_queue_worker
\* _ensure_queue_worker, lines 287-288: read the flag
EnsureCheck(h) ==
    /\ h.pc = "ensure"
    /\ handlers' = Move(handlers, h,
           [h EXCEPT !.pc = IF queue_worker_started THEN "lock" ELSE "spawn"])
    /\ UNCHANGED <<urlVars, cb_left, queueVars, active_sem, loops, files, started>>

\* _ensure_queue_worker, lines 289-291: set the flag, start a loop thread
EnsureSpawn(h) ==
    /\ h.pc = "spawn"
    /\ queue_worker_started' = TRUE
    /\ loops' = loops (+) SetToBag({Idle("top")})
    /\ handlers' = Move(handlers, h, [h EXCEPT !.pc = "lock"])
    /\ UNCHANGED <<urlVars, cb_left, queue, queue_lock, appended, active_sem,
                   files, started>>

\* enqueue, line 312: with _queue_lock
EnqLock(h) ==
    /\ h.pc = "lock"
    /\ ~queue_lock
    /\ queue_lock' = TRUE
    /\ handlers' = Move(handlers, h, [h EXCEPT !.pc = "append"])
    /\ UNCHANGED <<urlVars, cb_left, queue, queue_worker_started, appended,
                   active_sem, loops, files, started>>

\* enqueue, line 313: _queue.append(job_callable), then the lock is released
EnqAppend(h) ==
    /\ h.pc = "append"
    /\ queue' = Append(queue, [h.job EXCEPT !.id = appended + 1])
    /\ appended' = appended + 1
    /\ queue_lock' = FALSE
    /\ handlers' = Move(handlers, h, [h EXCEPT !.pc = "return", !.job = NoJob])
    /\ UNCHANGED <<urlVars, cb_left, queue_worker_started, active_sem, loops,
                   files, started>>

\* dl_cb, lines 538, 544, 550, 552, 558: the handler returns
CbReturn(h) ==
    /\ h.pc = "return"
    /\ handlers' = handlers (-) SetToBag({h})
    /\ UNCHANGED <<urlVars, cb_left, queueVars, active_sem, loops, files, started>>

\* -------------------------------------------------------- _queue_loop
\* _queue_loop, line 296: with _queue_lock
LoopLock(l) ==
    /\ l.pc = "top"
    /\ ~queue_lock
    /\ queue_lock' = TRUE
    /\ loops' = Move(loops, l, [l EXCEPT !.pc = "locked"])
    /\ UNCHANGED <<urlVars, cb_left, handlers, queue, queue_worker_started,
                   appended, active_sem, files, started>>

\* LoopPop with the lock kept after a job was popped, as if the with block
\* of line 296 enclosed the acquire and the job call
LoopPop_KeepsLock(l) ==
    /\ l.pc = "locked"
    /\ IF queue # << >>
       THEN /\ loops' = Move(loops, l, [l EXCEPT !.pc = "acquire", !.job = Head(queue)])
            /\ queue' = Tail(queue)
            /\ queue_lock' = queue_lock
       ELSE /\ loops' = Move(loops, l, [l EXCEPT !.pc = "top"])
            /\ queue' = queue
            /\ queue_lock' = FALSE
    /\ UNCHANGED <<urlVars, cb_left, handlers, queue_worker_started, appended,
                   active_sem, files, started>>

\* _queue_loop, lines 297-302: popleft if the queue is not empty, release the
\* lock; with no job the thread sleeps and goes back to the top of the loop
LoopPop(l) ==
    /\ l.pc = "locked"
    /\ queue_lock' = FALSE
    /\ IF queue # << >>
       THEN /\ loops' = Move(loops, l, [l EXCEPT !.pc = "acquire", !.job = Head(queue)])
            /\ queue' = Tail(queue)
       ELSE /\ loops' = Move(loops, l, [l EXCEPT !.pc = "top"])
            /\ queue' = queue
    /\ UNCHANGED <<urlVars, cb_left, handlers, queue_worker_started, appended,
                   active_sem, files, started>>

\* an acquire that never blocks
SemAvailable_NeverBlocks == TRUE

\* threading.BoundedSemaphore.acquire (lines 52, 304) blocks while the counter is 0
SemAvailable == active_sem > 0

\* _queue_loop, lines 304-306: _active_sem.acquire(), then job() is called
LoopAcquire(l) ==
    /\ l.pc = "acquire"
    /\ SemAvailable
    /\ active_sem' = active_sem - 1
    /\ started' = Append(started, l.job.id)
    /\ loops' = Move(loops, l, [l EXCEPT !.pc = "begin"])
    /\ UNCHANGED <<urlVars, cb_left, handlers, queueVars, files>>

\* --------------------------------------------------------- run_download
\* run_download, lines 371-372: except Exception: edit the status to ERROR.
\* err_ok: whether that edit returns; when it raises, the exception leaves
\* run_download.
Except(status, err_ok) ==
    [pc |-> "finally", status |-> IF err_ok THEN "ERROR" ELSE status,
     raised |-> ~err_ok]

\* run_download, lines 319-365: the INIT status message, the session lookup,
\* the format expression, the STARTING edit and the fetch.  init_ok, edit_ok,
\* fetch_ok: whether bot.send_message, the one bot.edit_message_text of the
\* path and ydl.extract_info(url, download=True) return (TRUE) or raise.
\* Lines 319-323 are outside the try block: a raise there leaves the job.
\* has_session: (chat_id, origin_msg_id) is a key of STATE.
Download(job, has_session, init_ok, edit_ok, fetch_ok, err_ok) ==
    IF ~init_ok
    THEN [pc |-> "finally", status |-> None, raised |-> TRUE]
    ELSE IF ~has_session
    THEN [pc |-> "finally", status |-> IF edit_ok THEN "EXPIRED" ELSE "INIT",
          raised |-> ~edit_ok]
    ELSE IF job.mode = "video" /\ job.fmt_id = None
    THEN IF edit_ok
         THEN [pc |-> "finally", status |-> "PICK", raised |-> FALSE]
         ELSE Except("INIT", err_ok)
    ELSE IF ~edit_ok THEN Except("INIT", err_ok)
    ELSE IF ~fetch_ok THEN Except("STARTING", err_ok)
    ELSE [pc |-> "send", status |-> "STARTING", raised |-> FALSE]

\* run_download, lines 329-330: outtmpl = "%(title).80s_{ts}.%(ext)s" in
\* DOWNLOAD_DIR.  The title is the one of the job's session, ts the whole
\* second at which the job read the clock, the extension follows the mode.
OutPath(job, ts) == <<job.key, ts, job.mode>>

\* run_download up to the end of the fetch; the artifact of a fetch that
\* returned is in DOWNLOAD_DIR at the job's output path, as long as the
\* medium of the job's URL
JobDownload(l) ==
    /\ l.pc = "begin"
    /\ \E init_ok \in BOOLEAN, edit_ok \in BOOLEAN, fetch_ok \in BOOLEAN,
          err_ok \in BOOLEAN :
          LET r == Download(l.job, l.job.key \in DOMAIN State,
                            init_ok, edit_ok, fetch_ok, err_ok)
          IN  IF r.pc = "send"
              THEN /\ files' = files \cup {OutPath(l.job, now)}
                   /\ loops' = Move(loops, l, [l EXCEPT !.pc = r.pc,
                                     !.status = r.status, !.ts = now,
                                     !.size = media[l.job.key]])
              ELSE /\ files' = files
                   /\ loops' = Move(loops, l, [l EXCEPT !.pc = r.pc,
                                     !.status = r.status, !.raised = r.raised])
    /\ UNCHANGED <<urlVars, cb_left, handlers, queueVars, active_sem, started>>

\* send_with_limit without the size check of lines 270-272
SendWithLimit_NoCeiling(present, size, call_ok) ==
    IF ~present
    THEN [raises |-> TRUE, ok |-> FALSE, sent |-> 0, too_big |-> FALSE]
    ELSE [raises |-> ~call_ok, ok |-> TRUE, sent |-> IF call_ok THEN 1 ELSE 0,
          too_big |-> FALSE]

\* send_with_limit, lines 268-280.  present: the artifact is in DOWNLOAD_DIR
\* (os.path.getsize raises otherwise); call_ok: whether the one transport
\* call of the path (send_message, or send_audio / send_video) returns.
\* size_mb > MAX_FILE_MB with size_mb = size / (1024 * 1024).
SendWithLimit(present, size, call_ok) ==
    IF ~present
    THEN [raises |-> TRUE, ok |-> FALSE, sent |-> 0, too_big |-> FALSE]
    ELSE IF size > MAX_FILE_MB * MiB
    THEN [raises |-> ~call_ok, ok |-> FALSE, sent |-> 0, too_big |-> call_ok]
    ELSE [raises |-> ~call_ok, ok |-> TRUE, sent |-> IF call_ok THEN 1 ELSE 0,
          too_big |-> FALSE]

\* safe_remove, lines 118-123
SafeRemove(fs, path) == fs \ {path}

\* run_download, lines 367-372: send_with_limit, the final status edit,
\* safe_remove; a raise of the send or of the edit goes to the except clause.
\* The result: the job's final status, whether an exception leaves it, the
\* files delivered, whether FILE TOO BIG was sent, whether safe_remove ran.
Deliver(status, present, size, call_ok, edit_ok, err_ok) ==
    LET s == SendWithLimit(present, size, call_ok)
        e == Except(status, err_ok)
    IN  IF ~s.raises /\ edit_ok
        THEN [status |-> IF s.ok THEN "DONE" ELSE "NOT_SENT", raised |-> FALSE,
              sent |-> s.sent, too_big |-> s.too_big, removes |-> TRUE]
        ELSE [status |-> e.status, raised |-> e.raised,
              sent |-> s.sent, too_big |-> s.too_big, removes |-> FALSE]

JobDeliver(l) ==
    /\ l.pc = "send"
    /\ \E call_ok \in BOOLEAN, edit_ok \in BOOLEAN, err_ok \in BOOLEAN :
          LET r == Deliver(l.status, OutPath(l.job, l.ts) \in files, l.size,
                           call_ok, edit_ok, err_ok)
          IN  /\ loops' = Move(loops, l, [l EXCEPT !.pc = "finally",
                                !.status = r.status, !.raised = r.raised,
                                !.sent = r.sent, !.too_big = r.too_big])
              /\ files' = IF r.removes
                          THEN SafeRemove(files, OutPath(l.job, l.ts)) ELSE files
    /\ UNCHANGED <<urlVars, cb_left, handlers, queueVars, active_sem, started>>

\* LoopFinally with the release after job() instead of in a finally clause:
\* an exception of job() skips it
LoopFinally_NoFinally(l) ==
    /\ l.pc = "finally"
    /\ active_sem' = IF l.raised THEN active_sem ELSE active_sem + 1
    /\ loops' = Move(loops, l, Idle(IF l.raised THEN "dead" ELSE "top"))
    /\ UNCHANGED <<urlVars, cb_left, handlers, queueVars, files, started>>

\* _queue_loop, lines 307-308: finally: _active_sem.release(); an exception
\* of job() then leaves the while loop and the thread ends
LoopFinally(l) ==
    /\ l.pc = "finally"
    /\ active_sem' = active_sem + 1
    /\ loops' = Move(loops, l, Idle(IF l.raised THEN "dead" ELSE "top"))
    /\ UNCHANGED <<urlVars, cb_left, handlers, queueVars, files, started>>

\* clean_downloads, lines 101-104, called by cmd_cleanup (line 422) and by
\* menu_cb (line 452): every file of DOWNLOAD_DIR is deleted, whether or not a
\* job still uses it
CmdCleanup ==
    /\ files # {}
    /\ files' = {}
    /\ UNCHANGED <<urlVars, cb_left, handlers, queueVars, active_sem, loops, started>>

Next ==
    \/ \E m \in Keys : OnUrlScan(m)
    \/ \E m \in Keys : OnUrlStore(m)
    \/ DlCb
    \/ \E h \in BagToSet(handlers) : EnsureCheck(h)
    \/ \E h \in BagToSet(handlers) : EnsureSpawn(h)
    \/ \E h \in BagToSet(handlers) : EnqLock(h)
    \/ \E h \in BagToSet(handlers) : EnqAppend(h)
    \/ \E h \in BagToSet(handlers) : CbReturn(h)
    \/ \E l \in BagToSet(loops) : LoopLock(l)
    \/ \E l \in BagToSet(loops) : LoopPop(l)
    \/ \E l \in BagToSet(loops) : LoopAcquire(l)
    \/ \E l \in BagToSet(loops) : JobDownload(l)
    \/ \E l \in BagToSet(loops) : JobDeliver(l)
    \/ \E l \in BagToSet(loops) : LoopFinally(l)
    \/ CmdCleanup

Spec == Init /\ [][Next]_vars

\* ------------------------------------------------------------- the clock
\* time.time() (line 329) moves on to the next whole second
Tick ==
    /\ now < MaxClock
    /\ now' = now + 1
    /\ UNCHANGED <<State, menus, media, hookVars, buildVars, upc, upend, scan,
                   cb_left, handlers, queueVars, active_sem, loops, files, started>>

InitClock == Start(ClockCallbacks) /\ now = 0 /\ NoHook /\ NoBuild

NextClock == Next \/ Tick

\* the program with a clock that advances while it runs
SpecClock == InitClock /\ [][NextClock]_vars

\* ------------------------------------------------------ ProgressTracker
\* the variables of the handlers and jobs
progVars == <<State, menus, media, upc, upend, scan, cb_left, handlers, queueVars,
              active_sem, loops, files, started>>

\* Python's round() and the rounding of a format specification, to the nearest
\* integer with ties to the even one, of n / d (n >= 0, d > 0)
RoundHalfEven(n, d) ==
    LET q == n \div d
        r == n % d
    IN  IF 2 * r < d THEN q
        ELSE IF 2 * r > d THEN q + 1
        ELSE IF q % 2 = 0 THEN q ELSE q + 1

\* progress_bar, lines 87-90, of pct = downloaded / total * 100: the number of
\* filled segments, int(round(pct / 10)) kept within 0..10
ProgressBar(downloaded, total) ==
    LET filled == RoundHalfEven(downloaded * 10, total)
    IN  IF filled < 0 THEN 0 ELSE IF filled > 10 THEN 10 ELSE filled

\* d.get("total_bytes") or d.get("total_bytes_estimate"), line 234; 0 stands
\* for an absent or zero size
TotalOf(d) == IF d.total_bytes # 0 THEN d.total_bytes ELSE d.total_bytes_estimate

\* hook, lines 239-255: the text rendered for sample d (its total known):
\* bar, f"{pct:.1f}", f"{bytes_to_mb(spd):.2f}MB/s" or "?", f"{eta}s" or "?"
HookText(d) ==
    [bar |-> ProgressBar(d.downloaded_bytes, TotalOf(d)),
     pct |-> RoundHalfEven(d.downloaded_bytes * 1000, TotalOf(d)),
     spd |-> IF d.speed # 0 THEN RoundHalfEven(d.speed * 100, MiB) ELSE -1,
     eta |-> d.eta]

\* hook without the test of line 241
Hook_NoThrottle(self, d, t, edit_ok) ==
    IF d.status # "downloading" \/ TotalOf(d) = 0 \/ HookText(d) = self.last_text
       \/ ~edit_ok
    THEN [self |-> self, edited |-> << >>]
    ELSE [self |-> [last_edit |-> t, last_text |-> HookText(d)],
          edited |-> <<HookText(d)>>]

\* ProgressTracker.hook, lines 231-263, called with sample d at time t.
\* edit_ok: whether bot.edit_message_text returns (TRUE) or raises; the raise
\* is swallowed (lines 262-263).  The result: the tracker afterwards and the
\* text that reached the status message, if any.
Hook(self, d, t, edit_ok) ==
    IF d.status # "downloading" THEN [self |-> self, edited |-> << >>]
    ELSE IF TotalOf(d) = 0 THEN [self |-> self, edited |-> << >>]
    ELSE IF t - self.last_edit < PROGRESS_EDIT_SECONDS
    THEN [self |-> self, edited |-> << >>]
    ELSE IF HookText(d) # self.last_text /\ edit_ok
    THEN [self |-> [last_edit |-> t, last_text |-> HookText(d)],
          edited |-> <<HookText(d)>>]
    ELSE [self |-> self, edited |-> << >>]

\* the samples yt-dlp hands to a progress hook: the status, the sizes (0 when
\* absent), the speed in bytes per second (0 when absent) and the ETA (-1
\* when absent).  Of the downloading samples the first has no total, the
\* next two render to the same text (20.0 % and 20.02 %), one carries no
\* downloaded_bytes.
Samples ==
    LET d == [status |-> "downloading", total_bytes |-> 10000,
              total_bytes_estimate |-> 0, downloaded_bytes |-> 2000,
              speed |-> 0, eta |-> -1]
    IN  { [d EXCEPT !.status = "finished"],
          [d EXCEPT !.total_bytes = 0],
          d,
          [d EXCEPT !.total_bytes = 0, !.total_bytes_estimate = 10000,
                    !.downloaded_bytes = 2002],
          [d EXCEPT !.downloaded_bytes = 2500, !.speed = MiB, !.eta = 0],
          [d EXCEPT !.downloaded_bytes = 0] }

\* seconds between two calls of the hook (time.time() is the wall clock: it
\* may stand still or step back)
ClockSteps == {-1, 0, 1, PROGRESS_EDIT_SECONDS}

\* yt-dlp calls the hook of the tracker with the next sample
HookSample ==
    /\ nfed < MaxSamples
    /\ \E d \in Samples, dt \in ClockSteps, edit_ok \in BOOLEAN :
          LET r == Hook(tracker, d, now + dt, edit_ok)
          IN  /\ now' = now + dt
              /\ sample' = d
              /\ tracker' = r.self
              /\ emitted' = IF r.edited = << >> THEN emitted
                            ELSE Append(emitted, [at |-> now + dt, text |-> r.edited[1]])
    /\ nfed' = nfed + 1
    /\ UNCHANGED <<progVars, buildVars>>

\* a tracker created by a job (line 328), no handler and no job running;
\* the clock is far enough from its origin for the first sample to be due
\* (time.time() counts from 1970) whatever steps back it takes
InitHook ==
    /\ Start(0)
    /\ now = PROGRESS_EDIT_SECONDS + MaxSamples
    /\ NoHook
    /\ NoBuild

NextHook == HookSample

\* one ProgressTracker fed with progress samples
SpecHook == InitHook /\ [][NextHook]_vars

\* -------------------------------------------------- build_video_choices
\* pick_bucket, line 95
Common == <<144, 240, 360, 480, 720, 1080, 1440, 2160>>

\* pick_bucket with height < q for the test of line 97
PickBucket_Strict(height) ==
    IF height = 0 THEN 0
    ELSE LET fits == {i \in 1..Len(Common) : height < Common[i]}
         IN  IF fits = {} THEN 2160
             ELSE Common[CHOOSE i \in fits : \A j \in fits : i <= j]

\* pick_bucket, lines 92-99: the first q of common with height <= q, 2160
\* when there is none; 0 stands for the None of an absent height
PickBucket(height) ==
    IF height = 0 THEN 0
    ELSE LET fits == {i \in 1..Len(Common) : height <= Common[i]}
         IN  IF fits = {} THEN 2160
             ELSE Common[CHOOSE i \in fits : \A j \in fits : i <= j]

\* estimate_filesize_bytes, lines 106-113; 0 stands for an absent field and
\* for the None returned; int() of a quotient that is not negative
EstimateFilesizeBytes(fmt, duration) ==
    IF fmt.filesize # 0 THEN fmt.filesize
    ELSE IF fmt.filesize_approx # 0 THEN fmt.filesize_approx
    ELSE IF fmt.tbr # 0 /\ duration # 0 THEN (fmt.tbr * 1000 * duration) \div 8
    ELSE 0

\* dict.get(q, 0) on q_sizes
SizeGet(q_sizes, q) == IF q \in DOMAIN q_sizes THEN q_sizes[q] ELSE 0

\* d[q] = v on a dict
Put(d, q, v) == [k \in DOMAIN d \cup {q} |-> IF k = q THEN v ELSE d[k]]

\* consider with the token and the size of the last candidate kept
Consider_LastWins(c, f, duration) ==
    LET q == PickBucket(f.height)
    IN  IF q = 0 \/ f.format_id = None THEN c
        ELSE [q_to_fmt |-> Put(c.q_to_fmt, q, f.format_id),
              q_sizes |-> IF EstimateFilesizeBytes(f, duration) # 0
                          THEN Put(c.q_sizes, q, EstimateFilesizeBytes(f, duration))
                          ELSE c.q_sizes]

\* consider, lines 153-167, on the dicts c = (q_to_fmt, q_sizes)
Consider(c, f, duration) ==
    LET q == PickBucket(f.height)
        est == EstimateFilesizeBytes(f, duration)
        old == SizeGet(c.q_sizes, q)
    IN  IF q = 0 THEN c
        ELSE IF f.format_id = None THEN c
        ELSE [q_to_fmt |-> IF q \in DOMAIN c.q_to_fmt THEN c.q_to_fmt
                           ELSE Put(c.q_to_fmt, q, f.format_id),
              q_sizes |-> IF est # 0
                          THEN Put(c.q_sizes, q, IF old >= est THEN old ELSE est)
                          ELSE c.q_sizes]

\* the filters of the three loops, lines 171-176, 182-187 and 193-197
InTier(t, f) ==
    IF t = 1 THEN f.ext = "mp4" /\ f.vcodec # "none" /\ f.acodec # "none"
    ELSE IF t = 2 THEN f.ext = "mp4" /\ f.vcodec # "none" /\ f.acodec = "none"
    ELSE f.vcodec # "none" /\ f.acodec = "none" /\ f.ext \in {"webm", "mkv"}

\* a cascade that goes through every tier
AfterTier_NoShortCircuit(t, c) == IF t < 3 THEN t + 1 ELSE 4

\* lines 180 and 191: after the loop of tier t, the next loop runs only if
\* not q_to_fmt; 4 stands for the return of line 201
AfterTier(t, c) == IF t < 3 /\ c.q_to_fmt = << >> THEN t + 1 ELSE 4

\* one loop "for f in formats" of tier t over the candidates still to come
RECURSIVE ScanTier(_, _, _, _)
ScanTier(c, formats, t, duration) ==
    IF formats = << >> THEN c
    ELSE ScanTier(IF InTier(t, Head(formats)) THEN Consider(c, Head(formats), duration)
                  ELSE c,
                  Tail(formats), t, duration)

\* sorted() of a set of numbers
RECURSIVE Sorted(_)
Sorted(S) ==
    IF S = {} THEN << >>
    ELSE LET m == CHOOSE x \in S : \A y \in S : x <= y
         IN  <<m>> \o Sorted(S \ {m})

\* the cascade from the loop of tier t on
RECURSIVE Cascade(_, _, _)
Cascade(t, c, i) ==
    IF t = 4 THEN c
    ELSE LET a == ScanTier(c, i.formats, t, i.duration)
         IN  Cascade(AfterTier(t, a), a, i)

\* build_video_choices, lines 140-201: (qs, q_to_fmt, q_sizes)
BuildVideoChoices(i) ==
    LET c == Cascade(1, NoChoices, i)
    IN  [qs |-> Sorted(DOMAIN c.q_to_fmt), q_to_fmt |-> c.q_to_fmt,
         q_sizes |-> c.q_sizes]

\* the candidates the Extractor may list: muxed mp4 of 480p, 720p and 700p
\* with a reported, an approximate and a bitrate-derived size, one more without
\* a format id, video-only mp4 of 3000 and 720 lines, video-only webm and mkv,
\* a muxed webm and an audio-only m4a
Candidates ==
    LET f == [format_id |-> "m480", height |-> 480, ext |-> "mp4",
              vcodec |-> "avc1", acodec |-> "mp4a",
              filesize |-> 10 * MiB, filesize_approx |-> 0, tbr |-> 0]
    IN  { f,
          [f EXCEPT !.format_id = "m720", !.height = 720, !.filesize = 0,
                    !.filesize_approx = 20 * MiB],
          [f EXCEPT !.format_id = "m700", !.height = 700, !.filesize = 0,
                    !.tbr = 800],
          [f EXCEPT !.format_id = None, !.height = 720, !.filesize = 50 * MiB],
          [f EXCEPT !.format_id = "v3000", !.height = 3000, !.acodec = "none",
                    !.filesize = 30 * MiB],
          [f EXCEPT !.format_id = "v720", !.height = 720, !.acodec = "none",
                    !.filesize = 0],
          [f EXCEPT !.format_id = "w720", !.height = 720, !.ext = "webm",
                    !.vcodec = "vp9", !.acodec = "none", !.filesize = 5 * MiB],
          [f EXCEPT !.format_id = "k100", !.height = 100, !.ext = "mkv",
                    !.vcodec = "vp9", !.acodec = "none", !.filesize = 0,
                    !.tbr = 100],
          [f EXCEPT !.format_id = "mw720", !.height = 720, !.ext = "webm",
                    !.vcodec = "vp9", !.acodec = "opus"],
          [f EXCEPT !.format_id = "140", !.height = 0, !.ext = "m4a",
                    !.vcodec = "none", !.filesize = 3 * MiB] }

\* the format lists of at most MaxFormats candidates
FormatLists == UNION {[1..n -> Candidates] : n \in 0..MaxFormats}

\* on_url calls build_video_choices(info), line 474; info.get("duration") or 0
InitBuild ==
    /\ Start(0)
    /\ now = 0
    /\ NoHook
    /\ info \in [formats : FormatLists, duration : {0, 120}]
    /\ tier = 1
    /\ idx = 0
    /\ choices = NoChoices
    /\ returned = FALSE

\* one round of a loop "for f in formats": the filters, then consider(f)
BuildConsider ==
    /\ ~returned
    /\ idx < Len(info.formats)
    /\ idx' = idx + 1
    /\ choices' = IF InTier(tier, info.formats[idx + 1])
                  THEN Consider(choices, info.formats[idx + 1], info.duration)
                  ELSE choices
    /\ UNCHANGED <<info, tier, returned, progVars, now, hookVars>>

\* a loop is through: the next loop begins or the function returns
BuildAfterTier ==
    /\ ~returned
    /\ idx = Len(info.formats)
    /\ IF AfterTier(tier, choices) = 4
       THEN returned' = TRUE /\ UNCHANGED <<tier, idx>>
       ELSE tier' = AfterTier(tier, choices) /\ idx' = 0 /\ returned' = FALSE
    /\ UNCHANGED <<info, choices, progVars, now, hookVars>>

NextBuild == BuildConsider \/ BuildAfterTier

\* one call of build_video_choices
SpecBuild == InitBuild /\ [][NextBuild]_vars

\* lines 200-201: qs = sorted(q_to_fmt.keys()); return qs, q_to_fmt, q_sizes
Result ==
    [qs |-> Sorted(DOMAIN choices.q_to_fmt), q_to_fmt |-> choices.q_to_fmt,
     q_sizes |-> choices.q_sizes]

\* ------------------------------------------------------------ properties
\* loop threads at one of the positions S
LoopsAt(S) == CountIn(loops, {l \in BagToSet(loops) : l.pc \in S})
\* handler threads at one of the positions S
HandlersAt(S) == CountIn(handlers, {h \in BagToSet(handlers) : h.pc \in S})
\* jobs that are executing: job() was called and has not returned or raised
Executing == LoopsAt({"begin", "send"})
\* loop threads at the end of a job whose fetch returned
Finished == {l \in BagToSet(loops) : l.pc = "finally" /\ l.size # 0}
Ceiling == MAX_FILE_MB * MiB

\* C1: failure isolation - whatever step of run_download fails, the error does
\* not leave the job into _queue_loop, so no dispatch-loop thread ever ends.
C1_FailureIsolation == \A l \in BagToSet(loops) : l.pc # "dead"

\* C2: unconditional slot release - the slots held (MAX_ACTIVE_JOBS minus the
\* semaphore counter) are exactly the loop threads between acquire and
\* release, on every exit path of the job; with no thread there all
\* MAX_ACTIVE_JOBS slots are free.
C2_SlotRelease ==
    /\ active_sem \in 0..MAX_ACTIVE_JOBS
    /\ MAX_ACTIVE_JOBS - active_sem = LoopsAt(InTry)
    /\ LoopsAt(InTry) = 0 => active_sem = MAX_ACTIVE_JOBS

\* a job left by an exception, its loop thread ended, and every slot is free
C2_Witness ==
    /\ \E l \in BagToSet(loops) : l.pc = "dead"
    /\ active_sem = MAX_ACTIVE_JOBS

\* C3: admission bound - never more than MAX_ACTIVE_JOBS jobs execute at the
\* same time, however many loop threads hold a popped job.
C3_AdmissionBound == Executing <= MAX_ACTIVE_JOBS

\* MAX_ACTIVE_JOBS jobs execute and one more popped job waits for a slot
C3_Witness == Executing = MAX_ACTIVE_JOBS /\ LoopsAt({"acquire"}) >= 1

\* C4: strict FIFO dispatch - jobs start in the order in which they were
\* appended (a job's id is its position in the append order).
C4_FifoStart == started = [i \in 1..Len(started) |-> i]

\* C5: each admitted job runs on its own worker thread, so a job that is
\* executing does not keep the dispatch loop from popping the next job: with
\* a job executing, a slot free and a job queued, a dispatch thread is at the
\* pop.
C5_DispatchFreeWhileJobRuns ==
    (Executing >= 1 /\ active_sem > 0 /\ queue # << >>)
        => LoopsAt({"top", "locked"}) >= 1

\* C6: enqueue never blocks on download work - the queue lock is only ever
\* held by one thread inside the two-line block of enqueue (append) or of
\* _queue_loop (popleft), whose step out of the block is enabled whatever the
\* semaphore and the jobs do; a free lock can be taken by a waiting enqueue.
C6_EnqueueNeverBlocks ==
    /\ queue_lock <=> (HandlersAt({"append"}) + LoopsAt({"locked"}) = 1)
    /\ \A h \in BagToSet(handlers) :
          /\ h.pc = "append" => ENABLED EnqAppend(h)
          /\ (h.pc = "lock" /\ ~queue_lock) => ENABLED EnqLock(h)
    /\ \A l \in BagToSet(loops) : l.pc = "locked" => ENABLED LoopPop(l)

\* every slot is held and an enqueue call is at its append
C6_Witness == active_sem = 0 /\ HandlersAt({"append"}) = 1

\* C7: exactly-once consumption, no job lost - a job that waits in the queue
\* always has a live dispatch-loop thread to take it.
C7_NoJobStranded ==
    queue # << >> => \E l \in BagToSet(loops) : l.pc # "dead"

\* C8: session-expired handling - in every reachable state a well-formed
\* callback whose key is not in STATE is answered EXPIRED first, returns
\* without a job and without a fault; so no handler on its way through
\* enqueue and no queued job has a key that was absent at its lookup.
C8_SessionExpired ==
    /\ \A key \in Keys \ DOMAIN State, kind \in {"a", "v"},
          ans_ok \in BOOLEAN, ans2_ok \in BOOLEAN :
          LET r == DlCbResult(TRUE, kind, key, ans_ok, ans2_ok)
          IN  r.pc = "return" /\ r.job = NoJob /\ Head(r.answers) = "EXPIRED"
    /\ \A h \in BagToSet(handlers) :
          /\ h.pc \in {"ensure", "spawn", "lock", "append", "return"}
          /\ Head(h.answers) = "EXPIRED" => (h.pc = "return" /\ h.job = NoJob)
          /\ h.pc # "return" => h.job.key \in DOMAIN State
    /\ \A i \in 1..Len(queue) : queue[i].key \in DOMAIN State

\* a callback was answered EXPIRED and nothing was enqueued
C8_Witness ==
    /\ \E h \in BagToSet(handlers) : h.answers = <<"EXPIRED">> /\ h.pc = "return"
    /\ appended = 0 /\ queue = << >>

\* C9: artifact cleanup on every exit - when a job whose fetch returned has
\* ended, its artifact is no longer in DOWNLOAD_DIR.
C9_ArtifactCleanup == \A l \in Finished : OutPath(l.job, l.ts) \notin files

\* C10 as stated: an artifact above the ceiling is never sent, the rejection
\* is reported and the status is not DONE; an artifact at or below the
\* ceiling is sent exactly once.
C10_SizeCeiling_AsStated ==
    \A l \in Finished :
        /\ l.size > Ceiling => (l.sent = 0 /\ l.too_big /\ l.status # "DONE")
        /\ l.size <= Ceiling => l.sent = 1

\* C10 amended: an artifact above the ceiling is never sent and the status is
\* never DONE, and NOT_SENT is reached only after FILE TOO BIG was sent; an
\* artifact at or below the ceiling is sent at most once, exactly once when
\* the job ends DONE, and is never reported as too big.
C10_SizeCeiling ==
    \A l \in Finished :
        /\ l.size > Ceiling =>
              /\ l.sent = 0
              /\ l.status # "DONE"
              /\ l.status = "NOT_SENT" => l.too_big
        /\ l.size <= Ceiling =>
              /\ l.sent <= 1
              /\ l.status = "DONE" => (l.sent = 1 /\ ~l.raised)
              /\ l.sent = 0 => l.status \in {"ERROR", "STARTING"}
              /\ ~l.too_big
              /\ l.status # "NOT_SENT"

\* an artifact one byte above the ceiling was rejected: FILE TOO BIG sent,
\* nothing delivered, status NOT_SENT
C10_Witness ==
    \E l \in Finished :
        l.size > Ceiling /\ l.too_big /\ l.sent = 0 /\ l.status = "NOT_SENT"

\* texts that reached the chat during the scan of message m
Replied(m, text) == \E i \in 1..Len(scan[m].replies) : scan[m].replies[i] = text

\* C11: duration gate at resolution time only - a scan whose resolved
\* duration exceeds MAX_DURATION_SEC ends before build_video_choices runs,
\* sends no menu and writes no Session; and a job that finds its Session is
\* not checked against the limit again: with the Messenger calls and the
\* fetch returning it reaches the end of the fetch, whatever duration the
\* Session records (the limit itself included).
C11_DurationGate ==
    /\ \A m \in Keys :
          (scan[m].resolved /\ scan[m].duration > MAX_DURATION_SEC) =>
              /\ upc[m] = "done"
              /\ ~scan[m].built
              /\ m \notin menus /\ ~Replied(m, "MENU")
              /\ m \notin DOMAIN State
    /\ \A k \in DOMAIN State : State[k].duration = scan[k].duration
    /\ \A l \in BagToSet(loops) :
          (l.pc = "begin" /\ l.job.key \in DOMAIN State) =>
              Download(l.job, TRUE, TRUE, TRUE, TRUE, TRUE) =
                  [pc |-> "send", status |-> "STARTING", raised |-> FALSE]

\* a scan resolved a duration above the limit and replied TOO LONG
C11_Witness ==
    \E m \in Keys :
        /\ scan[m].duration = MAX_DURATION_SEC + 1
        /\ scan[m].replies = <<"SCANNING", "TOO_LONG">>
        /\ upc[m] = "done" /\ State = << >>

\* the Extractor raised during the scan of message m
ResolutionFailed(m) ==
    upc[m] = "done" /\ ~scan[m].resolved /\ Replied(m, "SCANNING")

\* the scan of message m built a ladder with no bucket
LadderEmpty(m) == scan[m].built /\ scan[m].ladder = NoLadder

\* C12 as stated: when resolution fails or the ladder is empty after all
\* three tiers, the scan aborts: no menu is sent and no Session is written
\* under the message's key.
C12_ScanAbort_AsStated ==
    \A m \in Keys :
        (ResolutionFailed(m) \/ LadderEmpty(m)) =>
            (m \notin menus /\ m \notin DOMAIN State /\ upc[m] = "done")

\* C12 amended: when resolution fails the scan aborts before any ladder is
\* built, replies SCAN FAILED if the Messenger takes the reply, sends no menu
\* and writes no Session; an empty ladder does not abort the scan: when the
\* menu send returns, the Session is written with the empty ladder, a video
\* selection is then answered QUALITY NOT AVAILABLE and an audio selection is
\* queued.
C12_ScanAbort ==
    \A m \in Keys :
        /\ ResolutionFailed(m) =>
              /\ ~scan[m].built
              /\ scan[m].replies \in {<<"SCANNING">>, <<"SCANNING", "SCAN_FAILED">>}
              /\ m \notin menus /\ m \notin DOMAIN State
        /\ (~scan[m].resolved /\ upc[m] # "new") => upc[m] = "done"
        /\ (LadderEmpty(m) /\ upc[m] = "done" /\ Replied(m, "MENU")) =>
              /\ m \in DOMAIN State
              /\ State[m].q_to_fmt = NoLadder
              /\ DlCbResult(TRUE, "v", m, TRUE, TRUE).answers = <<"QUEUED", "NO_QUALITY">>
              /\ DlCbResult(TRUE, "a", m, TRUE, TRUE).pc = "ensure"

\* the Extractor raised, SCAN FAILED was replied and the handler returned
C12_Witness ==
    \E m \in Keys :
        ResolutionFailed(m) /\ scan[m].replies = <<"SCANNING", "SCAN_FAILED">>

\* C13: end-to-end liveness of a selection - once the menu of a scan offers
\* a quality, a selection of it that the Messenger answers is queued for
\* download (the first step towards the one file sent and the DONE status);
\* it is never dropped as expired.
C13_OfferedSelectionQueued ==
    \A m \in menus :
        (cb_left > 0 /\ Bucket \in DOMAIN scan[m].ladder) =>
            LET r == DlCbResult(TRUE, "v", m, TRUE, TRUE)
            IN  r.pc = "ensure" /\ r.answers = <<"QUEUED">> /\ r.job.mode = "video"

\* C14, in every state: any two successive edits that returned are at least
\* PROGRESS_EDIT_SECONDS apart and differ in their text, and the tracker
\* remembers the last of them.
C14_EmissionsApart ==
    /\ \A i \in 2..Len(emitted) :
          /\ emitted[i].at - emitted[i - 1].at >= PROGRESS_EDIT_SECONDS
          /\ emitted[i].text # emitted[i - 1].text
    /\ emitted # << >> =>
          /\ tracker.last_edit = emitted[Len(emitted)].at
          /\ tracker.last_text = emitted[Len(emitted)].text
    /\ emitted = << >> => tracker = NewTracker

\* C14, in every call of the hook: a render is emitted only for a
\* downloading sample of known total, at least PROGRESS_EDIT_SECONDS after
\* the last render that returned, and with a text other than that render's;
\* a sample of unknown total emits nothing and leaves the tracker as it was.
C14_CallEmitsOnlyWhenDue ==
    /\ emitted' # emitted =>
          /\ emitted' = Append(emitted, [at |-> now', text |-> HookText(sample')])
          /\ sample'.status = "downloading" /\ TotalOf(sample') # 0
          /\ now' - tracker.last_edit >= PROGRESS_EDIT_SECONDS
          /\ emitted # << >> =>
                /\ now' - emitted[Len(emitted)].at >= PROGRESS_EDIT_SECONDS
                /\ HookText(sample') # emitted[Len(emitted)].text
    /\ (nfed' # nfed /\ TotalOf(sample') = 0) =>
          (tracker' = tracker /\ emitted' = emitted)

\* C14: throttled, change-suppressed progress.
C14_ThrottledProgress == []C14_EmissionsApart /\ [][C14_CallEmitsOnlyWhenDue]_vars

\* of three samples two were rendered and one was suppressed
C14_Witness == Len(emitted) = 2 /\ nfed = 3

\* C15: collision-free artifact names - no two jobs that are executing at
\* the same time, their output path fixed, use the same output path.
C15_DistinctOutPaths ==
    \A l1, l2 \in BagToSet(loops) :
        (l1 # l2 /\ l1.pc = "send" /\ l2.pc = "send") =>
            OutPath(l1.job, l1.ts) # OutPath(l2.job, l2.ts)

\* the ladder as a set, and the smallest ladder value that is at least h, 2160
\* for the heights above the ladder
Ladder == {144, 240, 360, 480, 720, 1080, 1440, 2160}
NearestCeiling(h) ==
    IF \E q \in Ladder : q >= h
    THEN CHOOSE q \in Ladder : q >= h /\ \A p \in Ladder : p >= h => q <= p
    ELSE 2160

\* the candidates the loop of tier t hands to consider and consider places:
\* they pass the filters of the tier, have a format token and a positive height
Placed(t, f) == InTier(t, f) /\ f.format_id # None /\ f.height > 0

\* the candidates among the first n of the list that tier t places in bucket q
PlacedIn(t, n, q) ==
    {j \in 1..n : Placed(t, info.formats[j])
                  /\ NearestCeiling(info.formats[j].height) = q}

\* C16: the bucket list build_video_choices returns is strictly increasing and
\* drawn from the ladder, every returned bucket has one format token, and
\* every candidate placed goes to the smallest ladder value that is at least
\* its height, 2160 for the heights above the ladder: the buckets populated
\* are exactly the nearest ceilings of the candidates placed so far
C16_LadderShape ==
    /\ tier \in 1..3 =>
          DOMAIN choices.q_to_fmt =
              {NearestCeiling(info.formats[j].height) :
                   j \in {i \in 1..idx : Placed(tier, info.formats[i])}}
    /\ returned =>
          /\ Result = BuildVideoChoices(info)
          /\ \A i \in 1..Len(Result.qs) : Result.qs[i] \in Ladder
          /\ \A i \in 1..(Len(Result.qs) - 1) : Result.qs[i] < Result.qs[i + 1]
          /\ {Result.qs[i] : i \in 1..Len(Result.qs)} = DOMAIN Result.q_to_fmt
          /\ \A q \in DOMAIN Result.q_to_fmt : Result.q_to_fmt[q] # None
          /\ DOMAIN Result.q_sizes \subseteq DOMAIN Result.q_to_fmt

\* the call has returned two buckets in increasing order for a list that has
\* them in decreasing order: a height above the ladder first, then a height
\* that is a ladder value
C16_Witness ==
    /\ returned
    /\ Len(info.formats) >= 2
    /\ info.formats[1].height = 3000
    /\ info.formats[2].height = 720
    /\ Result.qs = <<720, 2160>>
    /\ Result.q_to_fmt[2160] = info.formats[1].format_id

\* the loop of tier t alone populates a bucket
TierPopulates(t, i) ==
    ScanTier(NoChoices, i.formats, t, i.duration).q_to_fmt # << >>

\* a video-only candidate, and the lists without them, without the ones of
\* the fallback containers
VideoOnly(f) == f.vcodec # "none" /\ f.acodec = "none"
WithoutVideoOnly(i) ==
    [i EXCEPT !.formats = SelectSeq(i.formats, LAMBDA f : ~VideoOnly(f))]
WithoutFallback(i) ==
    [i EXCEPT !.formats = SelectSeq(i.formats, LAMBDA f : ~InTier(3, f))]

\* C17: once the loop of the muxed mp4 tier has populated a bucket the loops of
\* tiers 2 and 3 do not run, and the tokens and sizes returned are the ones
\* returned for the list without its video-only candidates; once the loop of
\* tier 2 has populated a bucket the loop of tier 3 does not run, and the result
\* is the one for the list without its webm and mkv video-only candidates
C17_TierShortCircuit ==
    /\ tier >= 2 => ~TierPopulates(1, info)
    /\ tier = 3 => ~TierPopulates(2, info)
    /\ returned /\ TierPopulates(1, info) =>
          /\ tier = 1
          /\ Result = BuildVideoChoices(WithoutVideoOnly(info))
    /\ returned /\ ~TierPopulates(1, info) /\ TierPopulates(2, info) =>
          /\ tier = 2
          /\ Result = BuildVideoChoices(WithoutFallback(info))

\* the call has returned for a list with a muxed mp4 candidate placed and a
\* video-only candidate that tier 2 would have placed in another bucket
C17_Witness ==
    /\ returned
    /\ TierPopulates(1, info)
    /\ TierPopulates(2, info)
    /\ DOMAIN ScanTier(NoChoices, info.formats, 2, info.duration).q_to_fmt
           \ DOMAIN Result.q_to_fmt # {}

\* the largest of a set of sizes, 0 for the empty set
MaxOf(S) == IF S = {} THEN 0 ELSE CHOOSE x \in S : \A y \in S : y <= x

\* what the scan has recorded so far is what the claim says of it: a bucket's
\* token is the one of the first candidate placed in it, its size the largest
\* estimate over the candidates placed in it, absent when none has an estimate
C18_FirstTokenMaxSize ==
    tier \in 1..3 =>
        \A q \in DOMAIN choices.q_to_fmt :
            LET placed == PlacedIn(tier, idx, q)
                first == CHOOSE j \in placed : \A k \in placed : j <= k
                ests == {EstimateFilesizeBytes(info.formats[j], info.duration) :
                             j \in placed} \ {0}
            IN  /\ placed # {}
                /\ choices.q_to_fmt[q] = info.formats[first].format_id
                /\ SizeGet(choices.q_sizes, q) = MaxOf(ests)
                /\ q \in DOMAIN choices.q_sizes <=> ests # {}

\* one round of a loop never replaces a token and never lowers a size; for the
\* bucket of the candidate it places, a larger estimate becomes the size, a
\* smaller or an unknown one leaves the size as it was
C18_RoundKeeps ==
    /\ \A q \in DOMAIN choices.q_to_fmt :
          /\ q \in DOMAIN choices'.q_to_fmt
          /\ choices'.q_to_fmt[q] = choices.q_to_fmt[q]
    /\ \A q \in DOMAIN choices.q_sizes :
          /\ q \in DOMAIN choices'.q_sizes
          /\ choices'.q_sizes[q] >= choices.q_sizes[q]
    /\ idx' = idx + 1 /\ Placed(tier, info.formats[idx + 1]) =>
          LET f == info.formats[idx + 1]
              q == NearestCeiling(f.height)
              est == EstimateFilesizeBytes(f, info.duration)
              old == SizeGet(choices.q_sizes, q)
          IN  /\ est > old => choices'.q_sizes[q] = est
              /\ est <= old => SizeGet(choices'.q_sizes, q) = old
              /\ \A p \in DOMAIN choices'.q_sizes \ {q} :
                    /\ p \in DOMAIN choices.q_sizes
                    /\ choices'.q_sizes[p] = choices.q_sizes[p]

\* C18: while build_video_choices scans, a bucket's token is the one of the
\* first candidate placed in it and is never replaced, and a bucket's size
\* never decreases: it is the maximum estimate over the candidates placed
C18_RetainFirstMaxSize == []C18_FirstTokenMaxSize /\ [][C18_RoundKeeps]_vars

\* a bucket has taken three candidates: its token is the first one's, not the
\* second one's, its size the estimate of the second, larger than the others
C18_Witness ==
    /\ tier = 1
    /\ idx = 3
    /\ PlacedIn(1, 3, 720) = {1, 2, 3}
    /\ choices.q_to_fmt[720] = info.formats[1].format_id
    /\ info.formats[2].format_id # info.formats[1].format_id
    /\ EstimateFilesizeBytes(info.formats[1], info.duration) # 0
    /\ EstimateFilesizeBytes(info.formats[1], info.duration)
           < EstimateFilesizeBytes(info.formats[2], info.duration)
    /\ EstimateFilesizeBytes(info.formats[3], info.duration) # 0
    /\ EstimateFilesizeBytes(info.formats[3], info.duration)
           < choices.q_sizes[720]

\* C19: single dispatch loop - at most one thread is ever started with
\* target=_queue_loop.
C19_SingleDispatchLoop == BagCardinality(loops) <= 1

\* C20: the Session is stored before the menu is usable - whenever the menu
\* of a URL message has been sent, the Session of that message is in STATE.
C20_SessionBeforeMenu == \A m \in menus : m \in DOMAIN State

==========================================================================
